---- MODULE Spec2Model ----
(***************************************************************************)
(* Render job supervisor of goldmine-v2 (backend/core/render_api.py).      *)
(*                                                                         *)
(* The state is the RenderJob table, the request handlers in flight        *)
(* (create_render_job, cancel_render_job), one runner thread per created   *)
(* job with its position in _start_job.runner / _run_command_for_job, the  *)
(* child process of each job and the module-level process registry.        *)
(* Every database statement of a handler is its own step, so that the      *)
(* interleavings of requests and runner threads are explored.              *)
(*                                                                         *)
(* The pure functions of the pipeline are operators, each examined by a    *)
(* specification of its own whose initial states are its calls:            *)
(* _append_log and handle_line (render_api.py),                            *)
(* extract_exercise_search_texts (backend/core/search_utils.py) and        *)
(* _inject_exercise_markers (management/commands/render_series_html.py).   *)
(*                                                                         *)
(* The render command that the children of a job run (Command.handle and   *)
(* render_series of render_series_html.py) and the recursion of            *)
(* _inline_inputs are state machines of their own over the same variable.  *)
(***************************************************************************)
EXTENDS Integers, Sequences, FiniteSets, TLC

\* ---- bounds of the model ----
MaxJobs == 2
MaxSeries == 3
MaxLines == 2
NumClients == 2

JobIds == 1..MaxJobs
Clients == 1..NumClients

\* Series.objects: the ids of the documents in the corpus.
SeriesTable == 1..MaxSeries

\* series_ids payloads of a request: no id, the first n known ids (documents
\* are interchangeable and the runner walks them in ascending order), or an
\* unknown id.
PayloadIds == {1..n : n \in 0..MaxSeries} \cup {{MaxSeries + 1}}

\* RenderJob.Status and RenderJob.Scope
QUEUED == "queued"
RUNNING == "running"
SUCCEEDED == "succeeded"
FAILED == "failed"
CANCELLED == "cancelled"
Status == {QUEUED, RUNNING, SUCCEEDED, FAILED, CANCELLED}
ALL == "all"
SERIES == "series"
Scope == {ALL, SERIES}

\* The messages a child writes after the "Series N:" prefix, by the class
\* handle_line tells apart, and NOPREFIX for a line without the prefix.
INSERTED == "inserted 3 exercise markers"
RENDERED == "rendered"
SKIPPING == "up-to-date, skipping"
OTHERMSG == "LaTeXML failed, showing raw TeX fallback"
NOPREFIX == "Rendered 1/1 series"
Msgs == {INSERTED, RENDERED, SKIPPING, OTHERMSG, NOPREFIX}

\* Messages that pass more than one of handle_line's tests.
INSERTED_SKIPPING == "inserted 3 exercise markers, up-to-date, skipping"
OTHER_SKIPPING == "LaTeXML failed, showing raw TeX fallback: up-to-date, skipping"
AllMsgs == Msgs \cup {INSERTED_SKIPPING, OTHER_SKIPPING}

\* _SERIES_LINE_RE.match(raw)
SERIES_LINE_RE(msg) == msg # NOPREFIX
\* msg.startswith("inserted ")
StartsWithInserted(msg) == msg \in {INSERTED, INSERTED_SKIPPING}
\* "up-to-date, skipping" in msg
ContainsSkipping(msg) == msg \in {SKIPPING, INSERTED_SKIPPING, OTHER_SKIPPING}

\* Exit code of a child killed by proc.terminate() (SIGTERM).
Killed == 0 - 15
ExitCodes == {0, 1}

VARIABLES
    db,             \* RenderJob rows, db[j] is the row with id j
    wk,             \* runner thread of each job: position and locals
    child,          \* child process of each job
    RUNNING_PROCS,  \* _RUNNING_PROCS: ids of the jobs with a registered handle
    client,         \* create_render_job requests in flight
    canc,           \* cancel_render_job request in flight
    hist,           \* history of each job, read by the properties only
    call            \* the call of a pure function under examination

vars == <<db, wk, child, RUNNING_PROCS, client, canc, hist, call>>

\* The state of the job supervisor.
jobVars == <<db, wk, child, RUNNING_PROCS, client, canc, hist>>

\* ---- records ----

\* RenderJob.objects.create(status=QUEUED, scope=..., series_ids=..., total_count=...)
NewRow(scope, ids, total) ==
    [status |-> QUEUED, scope |-> scope, series_ids |-> ids,
     total_count |-> total, processed_count |-> 0, rendered_count |-> 0,
     skipped_count |-> 0, failed_count |-> 0, current_series_id |-> 0,
     pid |-> FALSE, return_code |-> <<>>,
     finished_at |-> FALSE, error_message |-> FALSE]

NoRow == NewRow(ALL, {}, 0)

\* The fields of a loaded RenderJob object that the runner reads or changes.
Copy(row) ==
    [status |-> row.status, total_count |-> row.total_count,
     processed_count |-> row.processed_count, rendered_count |-> row.rendered_count,
     skipped_count |-> row.skipped_count, failed_count |-> row.failed_count,
     current_series_id |-> row.current_series_id]

NoJob == Copy(NoRow)

IdleWorker ==
    [pc |-> "idle", ids |-> <<>>, idx |-> 0, total |-> 0, finalize |-> TRUE,
     job |-> NoJob, completed |-> {}, nread |-> 0, rc |-> <<>>]

\* gen counts the children spawned for the job so far; sig tells whether
\* terminate() was called on the latest of them.
NoChild == [st |-> "none", gen |-> 0, rc |-> <<>>, sig |-> FALSE]

\* What has happened to a job so far.
\*   cancelAt:   where its runner stood when the first cancel was stored
\*   poll:       "pending" once a cancel is stored while a child is alive,
\*               "polled" once the runner has then read a line of that child
\*   shouldFail: a child has exited non-zero or an outcome was counted failed
\*   counted:    the document ids an outcome has been counted for
\*   dup:        an outcome line arrived for a document id already counted
\*   raised:     an exception was raised in its runner thread
NoHist ==
    [cancelAt |-> "none", poll |-> "no", shouldFail |-> FALSE, counted |-> {},
     dup |-> FALSE, raised |-> FALSE]

\* No cancel request is in flight. A request in flight holds the id of its
\* job and, once it has looked the process up, the child (gen) it found.
NoCancel == [pc |-> "idle", job |-> 0, gen |-> 0]

\* No function call is under examination.
NoCall == [fn |-> "none"]

\* The supervisor after start-up: no job, no request, no runner thread.
JobsInit ==
    /\ db = <<>>
    /\ wk = [j \in JobIds |-> IdleWorker]
    /\ child = [j \in JobIds |-> NoChild]
    /\ RUNNING_PROCS = {}
    /\ client = [c \in Clients |-> "idle"]
    /\ canc = NoCancel
    /\ hist = [j \in JobIds |-> NoHist]

Init ==
    /\ JobsInit
    /\ call = NoCall

Exists(j) == j \in DOMAIN db

\* sorted(set(series_ids)): the ids of a set in ascending order
RECURSIVE Sorted(_)
Sorted(S) ==
    IF S = {} THEN <<>>
    ELSE LET m == CHOOSE x \in S : \A y \in S : x <= y
         IN <<m>> \o Sorted(S \ {m})

\* ---- create_render_job (render_api.py 349-386) ----

\* The rows the existence check of line 357 finds.
ActiveJobs == {j \in DOMAIN db : db[j].status \in {QUEUED, RUNNING}}

\* Requests that have passed the check and not yet created their row.
Checked == {c \in Clients : client[c] = "checked"}

\* create_render_job without the check of lines 357-358.
CreateCheck_nogate(c, scopeOk, cap) ==
    /\ client[c] \in {"idle", "conflict"}
    /\ Len(db) + Cardinality(Checked) < cap
    /\ client' = [client EXCEPT ![c] = IF ~scopeOk THEN "idle" ELSE "checked"]
    /\ UNCHANGED <<db, wk, child, RUNNING_PROCS, canc, hist, call>>

\* Lines 351-358: scope validation (400), then the check for an active job
\* (409). A request that passes goes on to create its row; client[c] is
\* "conflict" while the latest request of client c is one answered 409. No
\* more than cap jobs are created in a run.
CreateCheck(c, scopeOk, cap) ==
    /\ client[c] \in {"idle", "conflict"}
    /\ Len(db) + Cardinality(Checked) < cap
    /\ client' = [client EXCEPT ![c] =
          IF ~scopeOk THEN "idle"
          ELSE IF ActiveJobs # {} THEN "conflict"
          ELSE "checked"]
    /\ UNCHANGED <<db, wk, child, RUNNING_PROCS, canc, hist, call>>

\* The runner thread _start_job starts (lines 275-281, 312-317): for scope
\* series it is about to walk the sorted ids; for scope all it has entered
\* _run_command_for_job with total_override = Series.objects.count(), loaded
\* the job (lines 135-138) and is about to spawn the one finalizing command.
StartedWorker(row) ==
    IF row.scope = SERIES
    THEN [IdleWorker EXCEPT !.pc = "loop_check", !.ids = Sorted(row.series_ids),
                            !.idx = 1, !.total = Cardinality(row.series_ids),
                            !.finalize = FALSE]
    ELSE [IdleWorker EXCEPT !.pc = "spawn", !.total = Cardinality(SeriesTable),
                            !.finalize = TRUE, !.job = Copy(row)]

\* Lines 360-386: validation of series_ids (400), creation of the row and,
\* the row being committed, the start of its runner thread.
CreateRow(c, scope, ids) ==
    /\ client[c] = "checked"
    /\ scope = ALL => ids = {}
    /\ client' = [client EXCEPT ![c] = "idle"]
    /\ IF scope = SERIES /\ (ids = {} \/ ~(ids \subseteq SeriesTable))
       THEN UNCHANGED <<db, wk>>
       ELSE LET total == IF scope = SERIES THEN Cardinality(ids)
                         ELSE Cardinality(SeriesTable)
                row == NewRow(scope, ids, total)
            IN /\ db' = Append(db, row)
               /\ wk' = [wk EXCEPT ![Len(db) + 1] = StartedWorker(row)]
    /\ UNCHANGED <<child, RUNNING_PROCS, canc, hist, call>>

\* ---- cancel_render_job (render_api.py 389-407) ----

\* proc.terminate(): SIGTERM ends a child that is still alive.
Terminate(ch) ==
    IF ch.st = "alive"
    THEN [ch EXCEPT !.st = "dead", !.rc = <<Killed>>, !.sig = TRUE]
    ELSE [ch EXCEPT !.sig = (@ \/ ch.st = "dead")]

\* Lines 392-394: load the job; a job that is not queued or running is
\* answered with its status and left alone.
CancelRead(j) ==
    /\ canc.pc = "idle"
    /\ Exists(j)
    /\ canc' = IF db[j].status \in {RUNNING, QUEUED}
               THEN [pc |-> "update", job |-> j, gen |-> 0]
               ELSE canc
    /\ UNCHANGED <<db, wk, child, RUNNING_PROCS, client, hist, call>>

\* Where the runner of job j stands when a cancel is stored: "between" when
\* exactly one child has been spawned and reaped and the second document of
\* a scope=series job is still to be started.
CancelPoint(j) ==
    IF /\ child[j].gen = 1
       /\ child[j].st = "none"
       /\ wk[j].pc \in {"loop_check", "spawn"}
    THEN "between" ELSE "other"

\* Line 397: the unconditional status update.
CancelUpdate ==
    /\ canc.pc = "update"
    /\ LET j == canc.job IN
        /\ db' = [db EXCEPT ![j].status = CANCELLED]
        /\ hist' = [hist EXCEPT
              ![j].cancelAt = IF @ = "none" THEN CancelPoint(j) ELSE @,
              ![j].poll = IF child[j].st = "alive" THEN "pending" ELSE @]
    /\ canc' = [canc EXCEPT !.pc = "signal"]
    /\ UNCHANGED <<wk, child, RUNNING_PROCS, client, call>>

\* Lines 399-401: the registry lookup under _RUNNING_LOCK and proc.poll();
\* the request is answered unless a process was found that has not exited.
CancelSignal ==
    /\ canc.pc = "signal"
    /\ canc' = IF canc.job \in RUNNING_PROCS /\ child[canc.job].st = "alive"
               THEN [canc EXCEPT !.pc = "terminate", !.gen = child[canc.job].gen]
               ELSE NoCancel
    /\ UNCHANGED <<db, wk, child, RUNNING_PROCS, client, hist, call>>

\* The runner has waited for the child of job j that a handle taken from the
\* registry refers to (line 237): the child is gone or a later one runs.
Reaped(j, gen) == child[j].gen # gen \/ child[j].st = "none"

\* Lines 402-407: proc.terminate() on the handle found, outside the lock. The
\* runner may have waited for that child in between, and may have spawned
\* the next one.
CancelTerminate ==
    /\ canc.pc = "terminate"
    /\ child' = IF Reaped(canc.job, canc.gen) THEN child
                ELSE [child EXCEPT ![canc.job] = Terminate(child[canc.job])]
    /\ canc' = NoCancel
    /\ UNCHANGED <<db, wk, RUNNING_PROCS, client, hist, call>>

\* ---- _run_command_for_job (render_api.py 129-272) ----

\* mark_completed with the failed branch forgotten.
mark_completed_nofail(w, series_id, kind) ==
    IF series_id \in w.completed THEN w
    ELSE [w EXCEPT
            !.completed = @ \cup {series_id},
            !.job.processed_count = @ + 1,
            !.job.rendered_count = IF kind = "rendered" THEN @ + 1 ELSE @,
            !.job.skipped_count = IF kind = "skipped" THEN @ + 1 ELSE @]

\* mark_completed without the completed_series guard.
mark_completed_nodedup(w, series_id, kind) ==
    [w EXCEPT
        !.completed = @ \cup {series_id},
        !.job.processed_count = @ + 1,
        !.job.rendered_count = IF kind = "rendered" THEN @ + 1 ELSE @,
        !.job.skipped_count = IF kind = "skipped" THEN @ + 1 ELSE @,
        !.job.failed_count = IF kind = "failed" THEN @ + 1 ELSE @]

\* mark_completed (lines 140-150) on the runner's locals.
mark_completed(w, series_id, kind) ==
    IF series_id \in w.completed THEN w
    ELSE [w EXCEPT
            !.completed = @ \cup {series_id},
            !.job.processed_count = @ + 1,
            !.job.rendered_count = IF kind = "rendered" THEN @ + 1 ELSE @,
            !.job.skipped_count = IF kind = "skipped" THEN @ + 1 ELSE @,
            !.job.failed_count = IF kind = "failed" THEN @ + 1 ELSE @]

\* The outcome handle_line gives the message of a structured line
\* (lines 165-175); "none" for the informational 'inserted' line.
Classify(msg) ==
    IF StartsWithInserted(msg) THEN "none"
    ELSE IF msg = RENDERED THEN "rendered"
    ELSE IF ContainsSkipping(msg) THEN "skipped"
    ELSE "failed"

\* handle_line with the tests for 'rendered' and for the skip phrase in the
\* other order of their outcomes.
handle_line_swapped(w, series_id, msg) ==
    IF ~SERIES_LINE_RE(msg) THEN w
    ELSE LET w1 == [w EXCEPT !.job.current_series_id = series_id]
         IN IF StartsWithInserted(msg) THEN w1
            ELSE IF msg = RENDERED THEN mark_completed(w1, series_id, "skipped")
            ELSE IF ContainsSkipping(msg) THEN mark_completed(w1, series_id, "rendered")
            ELSE mark_completed(w1, series_id, "failed")

\* handle_line (lines 152-175) on the runner's locals.
handle_line(w, series_id, msg) ==
    IF ~SERIES_LINE_RE(msg) THEN w
    ELSE LET w1 == [w EXCEPT !.job.current_series_id = series_id]
         IN IF Classify(msg) = "none" THEN w1
            ELSE mark_completed(w1, series_id, Classify(msg))

\* The counters a flush writes from the runner's copy of the job
\* (lines 204-208 and 225-229).
FlushCounters(row, job) ==
    [row EXCEPT !.processed_count = job.processed_count,
                !.rendered_count = job.rendered_count,
                !.skipped_count = job.skipped_count,
                !.failed_count = job.failed_count,
                !.current_series_id = job.current_series_id]

\* The documents the current child of job j renders: the one named by
\* --series-id, or every Series row (render_series_html.py, Command.handle).
Targets(j) ==
    IF wk[j].finalize THEN SeriesTable ELSE {wk[j].ids[wk[j].idx]}

\* Lines 177-189: subprocess.Popen.
Spawn(j) ==
    /\ wk[j].pc = "spawn"
    /\ child' = [child EXCEPT ![j] =
          [st |-> "alive", gen |-> child[j].gen + 1, rc |-> <<>>, sig |-> FALSE]]
    /\ hist' = [hist EXCEPT ![j].poll = "no"]
    /\ wk' = [wk EXCEPT ![j].pc = "register"]
    /\ UNCHANGED <<db, RUNNING_PROCS, client, canc, call>>

\* Lines 191-192: _RUNNING_PROCS[job_id] = proc.
Register(j) ==
    /\ wk[j].pc = "register"
    /\ RUNNING_PROCS' = RUNNING_PROCS \cup {j}
    /\ wk' = [wk EXCEPT ![j].pc = "flush0"]
    /\ UNCHANGED <<db, child, client, canc, hist, call>>

\* Lines 194-210: the forced flush that stores status running, the pid, the
\* total and the counters of the runner's copy.
FirstFlush(j) ==
    /\ wk[j].pc = "flush0"
    /\ LET job == [wk[j].job EXCEPT !.total_count = wk[j].total]
       IN /\ db' = [db EXCEPT ![j] =
                [FlushCounters(db[j], job) EXCEPT
                    !.status = RUNNING, !.pid = TRUE,
                    !.total_count = job.total_count]]
          /\ wk' = [wk EXCEPT ![j].job = job, ![j].pc = "read"]
    /\ UNCHANGED <<child, RUNNING_PROCS, client, canc, hist, call>>

\* Lines 214-230: one line of the child's output: the cancellation poll, the
\* accounting of the line and the flush, which the 0.6 s rate limit of
\* _flush_job (lines 114-126) suppresses or not. The runner of a job reads
\* at most MaxLines lines in all (nread counts them).
ReadLine(j, series_id, msg, throttled) ==
    /\ wk[j].pc = "read"
    /\ wk[j].nread < MaxLines
    /\ series_id \in Targets(j)
    /\ LET w == handle_line(wk[j], series_id, msg)
           counts == w.job.processed_count > wk[j].job.processed_count
       IN /\ wk' = [wk EXCEPT ![j] = [w EXCEPT !.nread = @ + 1]]
          /\ db' = IF throttled THEN db
                   ELSE [db EXCEPT ![j] = FlushCounters(db[j], w.job)]
          /\ hist' = [hist EXCEPT
                ![j].poll = IF @ = "pending" THEN "polled" ELSE @,
                ![j].shouldFail = @ \/ (counts /\ Classify(msg) = "failed"),
                ![j].counted = IF counts THEN @ \cup {series_id} ELSE @,
                ![j].dup = @ \/ (/\ SERIES_LINE_RE(msg)
                                 /\ Classify(msg) # "none"
                                 /\ series_id \in hist[j].counted)]
    /\ child' = IF db[j].status = CANCELLED
                THEN [child EXCEPT ![j] = Terminate(child[j])]
                ELSE child
    /\ UNCHANGED <<RUNNING_PROCS, client, canc, call>>

\* The child process ends by itself with some exit code.
ChildExit(j, rc) ==
    /\ child[j].st = "alive"
    /\ child' = [child EXCEPT ![j].st = "dead", ![j].rc = <<rc>>]
    /\ UNCHANGED <<db, wk, RUNNING_PROCS, client, canc, hist, call>>

\* Lines 247-254: the write that ends a child of a scope=series job.
NoFinalizeRow(row, rc) ==
    [row EXCEPT !.pid = FALSE, !.return_code = rc]

\* Lines 231-254: end of the child's output, rc = proc.wait(), removal of the
\* registry entry, reload of the job; for a scope=series job (finalize=False)
\* the write that ends the child and the return to the runner's loop.
Wait(j) ==
    /\ wk[j].pc = "read"
    /\ child[j].st = "dead"
    /\ child' = [child EXCEPT ![j].st = "none", ![j].rc = <<>>]
    /\ RUNNING_PROCS' = RUNNING_PROCS \ {j}
    /\ hist' = [hist EXCEPT ![j].shouldFail = @ \/ child[j].rc # <<0>>]
    /\ IF wk[j].finalize
       THEN /\ wk' = [wk EXCEPT ![j].rc = child[j].rc, ![j].job = Copy(db[j]),
                                ![j].completed = {}, ![j].nread = 0,
                                ![j].pc = "finalize"]
            /\ UNCHANGED db
       ELSE /\ db' = [db EXCEPT ![j] = NoFinalizeRow(db[j], child[j].rc)]
            /\ wk' = [wk EXCEPT ![j].job = NoJob, ![j].completed = {},
                                ![j].idx = @ + 1,
                                ![j].pc = IF wk[j].idx + 1 > Len(wk[j].ids)
                                          THEN "final_read" ELSE "loop_check"]
    /\ UNCHANGED <<client, canc, call>>

\* Lines 256-263: the terminal status of a finalizing command.
final_status(status, rc, failed_count) ==
    IF status # CANCELLED
    THEN IF rc # <<0>> THEN FAILED
         ELSE IF failed_count > 0 THEN FAILED
         ELSE SUCCEEDED
    ELSE status

Done == [IdleWorker EXCEPT !.pc = "done"]

\* Lines 256-272: the terminal write of a finalizing command.
Finalize(j) ==
    /\ wk[j].pc = "finalize"
    /\ db' = [db EXCEPT
          ![j].status = final_status(wk[j].job.status, wk[j].rc, wk[j].job.failed_count),
          ![j].finished_at = TRUE, ![j].pid = FALSE, ![j].return_code = wk[j].rc]
    /\ wk' = [wk EXCEPT ![j] = Done]
    /\ UNCHANGED <<child, RUNNING_PROCS, client, canc, hist, call>>

\* ---- _start_job.runner (render_api.py 276-325) ----

\* Lines 282-292 and 135-138: before each document, stop if the job is
\* cancelled; otherwise enter _run_command_for_job, which loads the job and
\* starts with an empty completed_series.
LoopCheck(j) ==
    /\ wk[j].pc = "loop_check"
    /\ wk' = IF db[j].status = CANCELLED
             THEN [wk EXCEPT ![j].pc = "final_read"]
             ELSE [wk EXCEPT ![j].job = Copy(db[j]), ![j].completed = {},
                             ![j].rc = <<>>, ![j].pc = "spawn"]
    /\ UNCHANGED <<db, child, RUNNING_PROCS, client, canc, hist, call>>

\* Line 294: final = RenderJob.objects.get(id=job.id).
FinalRead(j) ==
    /\ wk[j].pc = "final_read"
    /\ wk' = [wk EXCEPT ![j].job = Copy(db[j]), ![j].pc = "final_write"]
    /\ UNCHANGED <<db, child, RUNNING_PROCS, client, canc, hist, call>>

\* Line 302: the terminal status of a scope=series job.
runner_final_status(failed_count) ==
    IF failed_count = 0 THEN SUCCEEDED ELSE FAILED

\* Lines 295-310: the terminal write of a scope=series job.
FinalWrite(j) ==
    /\ wk[j].pc = "final_write"
    /\ db' = IF wk[j].job.status = CANCELLED
             THEN [db EXCEPT ![j].finished_at = TRUE, ![j].pid = FALSE]
             ELSE [db EXCEPT
                     ![j].status = runner_final_status(wk[j].job.failed_count),
                     ![j].finished_at = TRUE, ![j].pid = FALSE,
                     ![j].return_code = <<0>>]
    /\ wk' = [wk EXCEPT ![j] = Done]
    /\ UNCHANGED <<child, RUNNING_PROCS, client, canc, hist, call>>

\* The positions inside the try block (lines 277-317): its database reads
\* and writes and the Popen call can raise.
TryPcs == {"loop_check", "spawn", "register", "flush0", "read",
           "finalize", "final_read", "final_write"}

\* An exception that no handler catches: the runner thread ends with it.
Raise_uncaught(j) ==
    /\ wk[j].pc \in TryPcs
    /\ wk' = [wk EXCEPT ![j] = Done]
    /\ hist' = [hist EXCEPT ![j].raised = TRUE]
    /\ UNCHANGED <<db, child, RUNNING_PROCS, client, canc, call>>

\* An exception inside the try block reaches the handler of line 318.
Raise(j) ==
    /\ wk[j].pc \in TryPcs
    /\ wk' = [wk EXCEPT ![j] = [Done EXCEPT !.pc = "except"]]
    /\ hist' = [hist EXCEPT ![j].raised = TRUE]
    /\ UNCHANGED <<db, child, RUNNING_PROCS, client, canc, call>>

\* A handler that leaves the status as it is.
except_status_kept(status) == status

\* The status the handler of lines 320-325 stores.
except_status(status) == FAILED

\* Lines 318-325: the handler stores status failed and the exception text.
Except(j) ==
    /\ wk[j].pc = "except"
    /\ db' = [db EXCEPT ![j].status = except_status(db[j].status), ![j].error_message = TRUE,
                        ![j].finished_at = TRUE]
    /\ wk' = [wk EXCEPT ![j] = Done]
    /\ UNCHANGED <<child, RUNNING_PROCS, client, canc, hist, call>>

\* One job at a time with every output a child can produce.
Next ==
    \/ \E c \in Clients, ok \in BOOLEAN : CreateCheck(c, ok, 1)
    \/ \E c \in Clients, scope \in Scope, ids \in PayloadIds : CreateRow(c, scope, ids)
    \/ \E j \in JobIds : CancelRead(j)
    \/ CancelUpdate
    \/ CancelSignal
    \/ CancelTerminate
    \/ \E j \in JobIds : Spawn(j)
    \/ \E j \in JobIds : Register(j)
    \/ \E j \in JobIds : FirstFlush(j)
    \/ \E j \in JobIds, d \in SeriesTable, msg \in Msgs, t \in BOOLEAN : ReadLine(j, d, msg, t)
    \/ \E j \in JobIds, rc \in ExitCodes : ChildExit(j, rc)
    \/ \E j \in JobIds : Wait(j)
    \/ \E j \in JobIds : Finalize(j)
    \/ \E j \in JobIds : LoopCheck(j)
    \/ \E j \in JobIds : FinalRead(j)
    \/ \E j \in JobIds : FinalWrite(j)
    \/ \E j \in JobIds : Raise(j)
    \/ \E j \in JobIds : Except(j)

Spec == Init /\ [][Next]_vars

\* Several jobs: create requests race with each other and with the runners.
\* Every child prints one kind of line and exits with code 0, and no
\* exception is raised.
RaceNext ==
    \/ \E c \in Clients, ok \in BOOLEAN : CreateCheck(c, ok, MaxJobs)
    \/ \E c \in Clients, scope \in Scope, ids \in {{}, {1}} : CreateRow(c, scope, ids)
    \/ \E j \in JobIds : CancelRead(j)
    \/ CancelUpdate
    \/ CancelSignal
    \/ CancelTerminate
    \/ \E j \in JobIds : Spawn(j)
    \/ \E j \in JobIds : Register(j)
    \/ \E j \in JobIds : FirstFlush(j)
    \/ \E j \in JobIds : ReadLine(j, 1, RENDERED, FALSE)
    \/ \E j \in JobIds : ChildExit(j, 0)
    \/ \E j \in JobIds : Wait(j)
    \/ \E j \in JobIds : Finalize(j)
    \/ \E j \in JobIds : LoopCheck(j)
    \/ \E j \in JobIds : FinalRead(j)
    \/ \E j \in JobIds : FinalWrite(j)

RaceSpec == Init /\ [][RaceNext]_vars

\* Lines 351-358 for a request that is served while no other request is
\* between its check and the creation of its row.
SerialCheck(c, scopeOk) ==
    /\ Checked = {}
    /\ CreateCheck(c, scopeOk, MaxJobs)

\* Several jobs whose create requests, all of one client, are served one
\* after the other; children and exceptions as in RaceSpec.
SerialNext ==
    \/ \E ok \in BOOLEAN : SerialCheck(1, ok)
    \/ \E scope \in Scope, ids \in {{}, {1}} : CreateRow(1, scope, ids)
    \/ \E j \in JobIds : CancelRead(j)
    \/ CancelUpdate
    \/ CancelSignal
    \/ CancelTerminate
    \/ \E j \in JobIds : Spawn(j)
    \/ \E j \in JobIds : Register(j)
    \/ \E j \in JobIds : FirstFlush(j)
    \/ \E j \in JobIds : ReadLine(j, 1, RENDERED, FALSE)
    \/ \E j \in JobIds : ChildExit(j, 0)
    \/ \E j \in JobIds : Wait(j)
    \/ \E j \in JobIds : Finalize(j)
    \/ \E j \in JobIds : LoopCheck(j)
    \/ \E j \in JobIds : FinalRead(j)
    \/ \E j \in JobIds : FinalWrite(j)

SerialSpec == Init /\ [][SerialNext]_vars

\* The steps of a runner thread.
RunnerStep(j) ==
    \/ Spawn(j) \/ Register(j) \/ FirstFlush(j) \/ Wait(j) \/ Finalize(j)
    \/ LoopCheck(j) \/ FinalRead(j) \/ FinalWrite(j) \/ Except(j)

\* A runner thread that can take a step eventually takes it, and a child
\* process eventually exits.
Fairness ==
    \A j \in JobIds :
        /\ WF_vars(RunnerStep(j))
        /\ WF_vars(\E rc \in ExitCodes : ChildExit(j, rc))

\* One job at a time whose children print failing outcome lines, flushed or
\* rate-limited, so that a job can end succeeded, failed or cancelled.
LiveNext ==
    \/ \E c \in Clients, ok \in BOOLEAN : CreateCheck(c, ok, 1)
    \/ \E c \in Clients, scope \in Scope, ids \in PayloadIds : CreateRow(c, scope, ids)
    \/ \E j \in JobIds : CancelRead(j)
    \/ CancelUpdate
    \/ CancelSignal
    \/ CancelTerminate
    \/ \E j \in JobIds : Spawn(j)
    \/ \E j \in JobIds : Register(j)
    \/ \E j \in JobIds : FirstFlush(j)
    \/ \E j \in JobIds, d \in SeriesTable, msg \in {OTHERMSG}, t \in BOOLEAN : ReadLine(j, d, msg, t)
    \/ \E j \in JobIds, rc \in ExitCodes : ChildExit(j, rc)
    \/ \E j \in JobIds : Wait(j)
    \/ \E j \in JobIds : Finalize(j)
    \/ \E j \in JobIds : LoopCheck(j)
    \/ \E j \in JobIds : FinalRead(j)
    \/ \E j \in JobIds : FinalWrite(j)
    \/ \E j \in JobIds : Raise(j)
    \/ \E j \in JobIds : Except(j)

LiveSpec == Init /\ [][LiveNext]_vars /\ Fairness

Terminal == {SUCCEEDED, FAILED, CANCELLED}

\* ---- the log of a job (render_api.py 65, 106-126) ----

\* LOG_LIMIT_CHARS is 200000 in the source; the model keeps the rule with a
\* limit of a few characters.
LOG_LIMIT_CHARS == 3
\* The longest line of a child, longer than the limit.
MaxChunkLen == 4
\* The most characters a job receives in all, initial log included.
MaxStream == 6

Chars == {"a", "b"}

\* The texts of at most n characters, as sequences of characters.
Texts(n) == UNION {[1..k -> Chars] : k \in 0..n}

\* _append_log that keeps the head of the log instead of its tail.
append_log_head(log, chunk) ==
    IF chunk = <<>> THEN log
    ELSE LET l == log \o chunk
         IN IF Len(l) > LOG_LIMIT_CHARS THEN SubSeq(l, 1, LOG_LIMIT_CHARS) ELSE l

\* _append_log (lines 106-111): the new value of state.log.
append_log(log, chunk) ==
    IF chunk = <<>> THEN log
    ELSE LET l == log \o chunk
         IN IF Len(l) > LOG_LIMIT_CHARS
            THEN SubSeq(l, Len(l) - LOG_LIMIT_CHARS + 1, Len(l))
            ELSE l

\* Line 138: state.log starts as the stored output_log of the job. received
\* is that initial log followed by every line received so far, and flushed
\* the length received had at the latest write of output_log.
LogInit ==
    /\ JobsInit
    /\ \E initial \in Texts(LOG_LIMIT_CHARS) :
          call = [fn |-> "_append_log", pc |-> "flush0", log |-> initial,
                  output_log |-> initial, received |-> initial,
                  flushed |-> Len(initial)]

\* Lines 197-210: the forced flush stores the log before the first line.
LogFirstFlush ==
    /\ call.fn = "_append_log"
    /\ call.pc = "flush0"
    /\ call' = [call EXCEPT !.output_log = call.log,
                            !.flushed = Len(call.received), !.pc = "read"]
    /\ UNCHANGED jobVars

\* Lines 214-230: a line of the child is appended to the log (line 153) and
\* the log is stored unless the rate limit of _flush_job suppresses it.
LogLine(chunk, throttled) ==
    /\ call.fn = "_append_log"
    /\ call.pc = "read"
    /\ chunk # <<>>
    /\ Len(call.received) + Len(chunk) <= MaxStream
    /\ LET log == append_log(call.log, chunk)
           received == call.received \o chunk
       IN call' = [call EXCEPT
                     !.log = log, !.received = received,
                     !.output_log = IF throttled THEN @ ELSE log,
                     !.flushed = IF throttled THEN @ ELSE Len(received)]
    /\ UNCHANGED jobVars

\* Lines 248-253 and 265-272: the write that ends the child stores the log.
LogLastWrite ==
    /\ call.fn = "_append_log"
    /\ call.pc = "read"
    /\ call' = [call EXCEPT !.output_log = call.log,
                            !.flushed = Len(call.received), !.pc = "done"]
    /\ UNCHANGED jobVars

LogNext ==
    \/ LogFirstFlush
    \/ \E chunk \in Texts(MaxChunkLen), t \in BOOLEAN : LogLine(chunk, t)
    \/ LogLastWrite

LogSpec == LogInit /\ [][LogNext]_vars

\* ---- the search-text extractor (search_utils.py) ----

\* The longest rendered HTML, in tokens, and the largest expected count.
MaxHtml == 4
MaxCount == 3

\* What the extractor tells apart in the HTML: a marker comment
\* <!--GMEX:n-->, the opening tag of a heading of each level, the opening tag
\* of a footnotes section, a word of text and a word that is one of the TeX
\* commands of split_tex_by_exercise. Every word is followed by white space.
MARKER == "<!--GMEX:n-->"
H1 == "<h1>"
H2 == "<h2>"
H3 == "<h3>"
H4 == "<h4>"
FOOTNOTES == "<section class=footnotes>"
WORD == "word "
TEXCMD == "\\exercise "
HtmlTokens == {MARKER, H1, H2, H3, H4, FOOTNOTES, WORD, TEXCMD}
Htmls == UNION {[1..k -> HtmlTokens] : k \in 0..MaxHtml}

\* A text is a sequence of words, each named by its place in the HTML, with
\* SPACE for a blank between them.
SPACE == 0

\* list(pattern.finditer(html)): the places of a token, in ascending order.
Matches(html, tok) ==
    SelectSeq([i \in 1..Len(html) |-> i], LAMBDA i : html[i] = tok)

\* The places of the words of html[lo..hi], in order.
WordsIn(html, lo, hi) ==
    SelectSeq([i \in 1..Len(html) |-> i],
              LAMBDA i : lo <= i /\ i <= hi /\ html[i] \in {WORD, TEXCMD})

\* _normalize_whitespace (lines 76-77) of the given words: one blank between
\* two words, none at either end.
normalize_whitespace(words) ==
    IF words = <<>> THEN <<>>
    ELSE [k \in 1..(2 * Len(words) - 1) |->
             IF k % 2 = 1 THEN words[(k + 1) \div 2] ELSE SPACE]

\* html_to_text (lines 80-88) of html[lo..hi]: tags and comments leave no
\* text, white space is normalized.
html_to_text(html, lo, hi) == normalize_whitespace(WordsIn(html, lo, hi))

\* The end of the chunk that starts at the k-th match: the place before the
\* next match, or the end of the HTML.
ChunkEnd(html, m, k) == IF k < Len(m) THEN m[k + 1] - 1 ELSE Len(html)

\* split_html_by_markers (lines 117-129) followed by html_to_text: the text
\* after each marker up to the next marker.
marker_texts(html) ==
    LET m == Matches(html, MARKER)
    IN [k \in 1..Len(m) |-> html_to_text(html, m[k] + 1, ChunkEnd(html, m, k))]

\* The end of a heading chunk lo..hi cut before its first footnotes section
\* (lines 102-108).
CutFootnotes(html, lo, hi) ==
    LET f == {i \in lo..hi : html[i] = FOOTNOTES}
    IN IF f = {} THEN hi ELSE (CHOOSE i \in f : \A x \in f : i <= x) - 1

\* split_html_by_heading (lines 91-110) followed by html_to_text: the text
\* from each heading of the level up to the next one.
heading_texts(html, tag) ==
    LET m == Matches(html, tag)
    IN [k \in 1..Len(m) |->
          html_to_text(html, m[k], CutFootnotes(html, m[k], ChunkEnd(html, m, k)))]

\* split_tex_by_exercise (lines 132-146) on html_to_raw_text(html), each chunk
\* normalized (line 178): the text from each TeX command up to the next one.
tex_texts(html) ==
    LET m == Matches(html, TEXCMD)
    IN [k \in 1..Len(m) |-> html_to_text(html, m[k], ChunkEnd(html, m, k))]

\* Lines 164-182: the candidate lists, in the order they are appended.
Candidates(html) ==
    LET tier(c) == IF c = <<>> THEN <<>> ELSE <<c>>
        text == html_to_text(html, 1, Len(html))
    IN tier(marker_texts(html))
       \o tier(heading_texts(html, H2)) \o tier(heading_texts(html, H3))
       \o tier(heading_texts(html, H1)) \o tier(heading_texts(html, H4))
       \o (IF tex_texts(html) # <<>> THEN <<tex_texts(html)>>
           ELSE IF text # <<>> THEN <<<<text>>>> ELSE <<>>)

\* " ".join(chunks)
RECURSIVE Join(_)
Join(chunks) ==
    IF chunks = <<>> THEN <<>>
    ELSE IF Len(chunks) = 1 THEN chunks[1]
    ELSE chunks[1] \o <<SPACE>> \o Join(Tail(chunks))

\* _fit_chunks_to_count that drops the excess chunks instead of merging them.
fit_chunks_truncate(chunks, expected_count) ==
    IF expected_count <= 0 THEN chunks
    ELSE IF chunks = <<>> THEN [i \in 1..expected_count |-> <<>>]
    ELSE IF Len(chunks) = expected_count THEN chunks
    ELSE IF Len(chunks) > expected_count THEN SubSeq(chunks, 1, expected_count)
    ELSE chunks \o [i \in 1..(expected_count - Len(chunks)) |-> <<>>]

\* _fit_chunks_to_count (lines 149-160)
fit_chunks_to_count(chunks, expected_count) ==
    IF expected_count <= 0 THEN chunks
    ELSE IF chunks = <<>> THEN [i \in 1..expected_count |-> <<>>]
    ELSE IF Len(chunks) = expected_count THEN chunks
    ELSE IF Len(chunks) > expected_count
         THEN Append(SubSeq(chunks, 1, expected_count - 1),
                     Join(SubSeq(chunks, expected_count, Len(chunks))))
    ELSE chunks \o [i \in 1..(expected_count - Len(chunks)) |-> <<>>]

\* abs(len(c) - expected_count)
Distance(c, expected_count) ==
    IF Len(c) >= expected_count THEN Len(c) - expected_count
    ELSE expected_count - Len(c)

\* The first of a set of places of a sequence.
First(places) ==
    CHOOSE k \in places : \A x \in places : k <= x

\* extract_exercise_search_texts (lines 163-195) for an expected count that
\* is a number.
extract_exercise_search_texts(html, expected_count) ==
    LET candidates == Candidates(html)
        exact == {k \in 1..Len(candidates) : Len(candidates[k]) = expected_count}
        closest == {k \in 1..Len(candidates) :
                       \A x \in 1..Len(candidates) :
                           Distance(candidates[k], expected_count)
                              <= Distance(candidates[x], expected_count)}
    IN IF candidates = <<>>
       THEN IF expected_count # 0 THEN [i \in 1..expected_count |-> <<>>] ELSE <<>>
       ELSE IF exact # {}
       THEN candidates[First(exact)]
       ELSE fit_chunks_to_count(candidates[First(closest)], expected_count)

\* A call of the extractor on some HTML with some expected count.
ExtractInit ==
    /\ JobsInit
    /\ \E html \in Htmls, n \in 0..MaxCount :
          call = [fn |-> "extract_exercise_search_texts", pc |-> "call",
                  html |-> html, expected_count |-> n, result |-> <<>>]

Extract ==
    /\ call.fn = "extract_exercise_search_texts"
    /\ call.pc = "call"
    /\ call' = [call EXCEPT
                  !.result = extract_exercise_search_texts(call.html,
                                                           call.expected_count),
                  !.pc = "done"]
    /\ UNCHANGED jobVars

ExtractNext == Extract

ExtractSpec == ExtractInit /\ [][ExtractNext]_vars

\* ---- the exercise marker injector (render_series_html.py 39-103) ----

\* The longest TeX source, in tokens, the largest number of exercises of a
\* document, and how many patterns of the ordered list of lines 87-95 the
\* model has (the first NumPatterns of the seven).
MaxTex == 5
MaxExercises == 2
NumPatterns == 2

\* What the injector tells apart in the TeX source: the end of a line, the
\* tokens \begin{document} and \end{document}, an unescaped %, one of
\* \newcommand, \renewcommand, \providecommand, and a match of the k-th
\* pattern, written k.
NEWLINE == 0
BEGIN_DOCUMENT == 0 - 1
END_DOCUMENT == 0 - 2
PERCENT == 0 - 3
NEWCOMMAND == 0 - 4
Patterns == 1..NumPatterns
TexTokens == {NEWLINE, BEGIN_DOCUMENT, END_DOCUMENT, PERCENT, NEWCOMMAND} \cup Patterns
Texs == UNION {[1..k -> TexTokens] : k \in 0..MaxTex}

\* f"{MARKER_TOKEN}{idx}" (lines 17, 66)
MARKER_TOKEN(idx) == 0 - (10 + idx)

\* The least element of a non-empty set of numbers.
Least(S) == CHOOSE x \in S : \A y \in S : x <= y

\* text.splitlines(keepends=True): the lines of a text, each with the
\* NEWLINE that ends it.
RECURSIVE SplitLines(_)
SplitLines(text) ==
    IF text = <<>> THEN <<>>
    ELSE LET ends == {i \in 1..Len(text) : text[i] = NEWLINE}
             e == IF ends = {} THEN Len(text) ELSE Least(ends)
         IN <<SubSeq(text, 1, e)>> \o SplitLines(SubSeq(text, e + 1, Len(text)))

\* A line of text.splitlines(): without the NEWLINE that ends it.
WithoutEnd(line) == SelectSeq(line, LAMBDA x : x # NEWLINE)

\* _line_has_uncommented_match (lines 39-49): the first match of the pattern
\* in the line is not behind an unescaped % and not behind a \newcommand.
line_has_uncommented_match(line, pattern) ==
    LET matches == {i \in 1..Len(line) : line[i] = pattern}
        comments == {i \in 1..Len(line) : line[i] = PERCENT}
    IN IF matches = {} THEN FALSE
       ELSE IF comments # {} /\ Least(matches) > Least(comments) THEN FALSE
       ELSE IF \E i \in 1..(Least(matches) - 1) : line[i] = NEWCOMMAND THEN FALSE
       ELSE TRUE

\* _count_pattern_matches (lines 52-57)
count_pattern_matches(text, pattern) ==
    Cardinality({i \in 1..Len(SplitLines(text)) :
        line_has_uncommented_match(WithoutEnd(SplitLines(text)[i]), pattern)})

\* The loop of lines 63-67 from the line at place i on, idx markers written.
RECURSIVE InjectFrom(_, _, _, _, _)
InjectFrom(lines, i, pattern, count, idx) ==
    IF i > Len(lines) THEN [text |-> <<>>, idx |-> idx]
    ELSE IF idx < count /\ line_has_uncommented_match(lines[i], pattern)
    THEN LET rest == InjectFrom(lines, i + 1, pattern, count, idx + 1)
         IN [text |-> <<MARKER_TOKEN(idx + 1), NEWLINE>> \o lines[i] \o rest.text,
             idx |-> rest.idx]
    ELSE LET rest == InjectFrom(lines, i + 1, pattern, count, idx)
         IN [text |-> lines[i] \o rest.text, idx |-> rest.idx]

\* _inject_markers_for_pattern that writes the marker after the line.
RECURSIVE InjectAfter(_, _, _, _, _)
InjectAfter(lines, i, pattern, count, idx) ==
    IF i > Len(lines) THEN [text |-> <<>>, idx |-> idx]
    ELSE IF idx < count /\ line_has_uncommented_match(lines[i], pattern)
    THEN LET rest == InjectAfter(lines, i + 1, pattern, count, idx + 1)
         IN [text |-> lines[i] \o <<MARKER_TOKEN(idx + 1), NEWLINE>> \o rest.text,
             idx |-> rest.idx]
    ELSE LET rest == InjectAfter(lines, i + 1, pattern, count, idx)
         IN [text |-> lines[i] \o rest.text, idx |-> rest.idx]

inject_markers_after(text, pattern, count) ==
    InjectAfter(SplitLines(text), 1, pattern, count, 0)

\* _inject_markers_for_pattern (lines 60-68): the text with the markers and
\* the number of markers written.
inject_markers_for_pattern(text, pattern, count) ==
    InjectFrom(SplitLines(text), 1, pattern, count, 0)

\* Lines 75-85: the body is what lies between the end of the first
\* \begin{document} and the first \end{document} after it; without both
\* tokens the whole text is the body.
SplitDocument(raw_tex) ==
    LET begins == {i \in 1..Len(raw_tex) : raw_tex[i] = BEGIN_DOCUMENT}
        ends == IF begins = {} THEN {}
                ELSE {i \in (Least(begins) + 1)..Len(raw_tex) :
                         raw_tex[i] = END_DOCUMENT}
    IN IF begins = {} \/ ends = {}
       THEN [prefix |-> <<>>, body |-> raw_tex, suffix |-> <<>>]
       ELSE [prefix |-> SubSeq(raw_tex, 1, Least(begins)),
             body |-> SubSeq(raw_tex, Least(begins) + 1, Least(ends) - 1),
             suffix |-> SubSeq(raw_tex, Least(ends), Len(raw_tex))]

\* The test of line 99 with 'at least' in the place of 'equal'.
count_selects_atleast(match_count, exercise_count) == match_count >= exercise_count

\* Line 99: match_count == exercise_count
count_selects(match_count, exercise_count) == match_count = exercise_count

\* _inject_exercise_markers (lines 71-103)
inject_exercise_markers(raw_tex, exercise_count) ==
    IF exercise_count <= 0 THEN [text |-> raw_tex, idx |-> 0]
    ELSE LET doc == SplitDocument(raw_tex)
             selected == {k \in Patterns :
                 count_selects(count_pattern_matches(doc.body, k), exercise_count)}
         IN IF selected = {} THEN [text |-> raw_tex, idx |-> 0]
            ELSE LET injected == inject_markers_for_pattern(
                                     doc.body, Least(selected), exercise_count)
                 IN [text |-> doc.prefix \o injected.text \o doc.suffix,
                     idx |-> injected.idx]

\* A call of the injector on some TeX source with some number of exercises.
InjectInit ==
    /\ JobsInit
    /\ \E raw_tex \in Texs, n \in (0 - 1)..MaxExercises :
          call = [fn |-> "_inject_exercise_markers", pc |-> "call",
                  raw_tex |-> raw_tex, exercise_count |-> n,
                  result |-> [text |-> <<>>, idx |-> 0]]

Inject ==
    /\ call.fn = "_inject_exercise_markers"
    /\ call.pc = "call"
    /\ call' = [call EXCEPT
                  !.result = inject_exercise_markers(call.raw_tex,
                                                     call.exercise_count),
                  !.pc = "done"]
    /\ UNCHANGED jobVars

InjectNext == Inject

InjectSpec == InjectInit /\ [][InjectNext]_vars

\* ---- the render command (management/commands/render_series_html.py) ----

\* bounds of the command's model
MaxDocs == 2
MaxVersions == 2
MaxPipelines == 2
MaxRuns == 2

\* Series.objects: the documents the command can be run on.
Docs == 1..MaxDocs

\* Series.RenderStatus (FAILED is "failed" there too)
NOT_RENDERED == "not_rendered"
OK == "ok"

\* What render_series finds when it looks for the TeX source of a document
\* (lines 683-692): no tex_file, no fs_path, no such file, or the file, whose
\* inlined text is one of MaxVersions texts.  Text v holds v - 1 exercise
\* headings.
NO_TEX_FILE == 0 - 1
NO_FS_PATH == 0 - 2
NOT_FOUND == 0 - 3
Versions == 1..MaxVersions
Sources == {NO_TEX_FILE, NO_FS_PATH, NOT_FOUND} \cup Versions

\* series.exercises.count() of every document (line 866)
ExerciseCount == 1

\* The ways a call of latexmlc can end (line 281 and lines 925-931): exit
\* code 0 with HTML, exit code 0 without HTML, another exit code, or the
\* program is not installed and subprocess.run raises.
RENDERED_HTML == "ok"
EMPTY_HTML == "empty"
NONZERO == "nonzero"
Returns == {RENDERED_HTML, EMPTY_HTML, NONZERO}

\* hashlib.sha256(RENDER_PIPELINE_ID + "\n" + full_tex) (lines 699-701): the
\* digest stands for the pair it was computed from; "" is stored before the
\* first render.
Checksum(pipeline, full_tex) == <<pipeline, full_tex>>
NoChecksum == <<>>

\* The new row of a document (models.py 238-246).
NewSeries ==
    [html_content |-> [kind |-> "empty"], html_rendered_at |-> 0,
     render_status |-> NOT_RENDERED, render_log |-> "",
     tex_checksum |-> NoChecksum]

\* _inject_exercise_markers on the normalized text (line 866): markers are
\* written when the headings of the text are as many as the exercises.
Prepared(full_tex) ==
    [tex |-> full_tex,
     markers |-> IF full_tex - 1 = ExerciseCount THEN ExerciseCount ELSE 0]

\* _strip_marker_tokens (lines 35-36)
strip_marker_tokens(raw_tex) == [raw_tex EXCEPT !.markers = 0]

\* The fallback content (lines 933-939): the escaped text in a pre block.
Fallback(raw_tex) ==
    LET fallback_tex == strip_marker_tokens(raw_tex)
    IN [kind |-> "pre", tex |-> fallback_tex.tex,
        markers |-> fallback_tex.markers]

\* _replace_markers_with_comments on the renderer's HTML (lines 24-32, 955):
\* every marker becomes a comment.
Html(raw_tex) == [kind |-> "html", tex |-> raw_tex.tex, markers |-> 0,
                  comments |-> raw_tex.markers]

\* The test of line 702.
should_skip_never(force, series, checksum) == FALSE

should_skip(force, series, checksum) ==
    /\ ~force
    /\ series.tex_checksum = checksum
    /\ series.render_status = OK

\* The row that render_series saves after the renderer's return (lines
\* 931-963).
StoreResult_oldchecksum(series, rc, raw_tex, checksum, now) ==
    [html_content |-> IF rc # RENDERED_HTML THEN Fallback(raw_tex)
                      ELSE Html(raw_tex),
     html_rendered_at |-> now,
     render_status |-> IF rc # RENDERED_HTML THEN FAILED ELSE OK,
     render_log |-> IF rc # RENDERED_HTML THEN "LaTeXML failed" ELSE "log",
     tex_checksum |-> series.tex_checksum]

StoreResult(series, rc, raw_tex, checksum, now) ==
    [html_content |-> IF rc # RENDERED_HTML THEN Fallback(raw_tex)
                      ELSE Html(raw_tex),
     html_rendered_at |-> now,
     render_status |-> IF rc # RENDERED_HTML THEN FAILED ELSE OK,
     render_log |-> IF rc # RENDERED_HTML THEN "LaTeXML failed" ELSE "log",
     tex_checksum |-> checksum]

\* One line of the command's output: "Series <id>: <msg>" on stdout or
\* stderr, or the closing line.
Line(stream, series_id, msg) ==
    [stream |-> stream, series |-> series_id, msg |-> msg]

\* The process has not exited.
NoExit == 0 - 1

NoRender == [outcome |-> "none", source |-> NOT_FOUND, pipeline |-> 0,
             force |-> FALSE, equal |-> FALSE, ok |-> FALSE]

\* The state before the command is run for the first time.
RenderInit ==
    /\ JobsInit
    /\ \E source \in [Docs -> Sources] :
          call = [fn |-> "render_series_html", pc |-> "idle",
                  pipeline |-> 1, source |-> source,
                  series |-> [d \in Docs |-> NewSeries],
                  runs |-> 0, force |-> FALSE, qs |-> <<>>, i |-> 0,
                  successes |-> 0, output |-> <<>>, attempted |-> <<>>,
                  raw_tex |-> Prepared(1), hangs |-> FALSE,
                  exit |-> NoExit, now |-> 0,
                  last |-> [d \in Docs |-> NoRender],
                  prev |-> [d \in Docs |-> NoRender]]

InCommand == call.fn = "render_series_html"

\* The record of a finished call of render_series on document d.
Finished(d, outcome) ==
    [outcome |-> outcome, source |-> call.source[d],
     pipeline |-> call.pipeline, force |-> call.force,
     equal |-> call.source[d] \in Versions
               /\ call.series[d].tex_checksum
                    = Checksum(call.pipeline, call.source[d]),
     ok |-> call.series[d].render_status = OK]

\* Command.handle up to the loop (lines 661-669): the command is run with
\* --series-id (0: without) and with or without --force.
Handle(series_id, force) ==
    /\ InCommand
    /\ call.pc = "idle"
    /\ call.runs < MaxRuns
    /\ LET qs == IF series_id = 0 THEN [k \in 1..MaxDocs |-> k]
                 ELSE IF series_id \in Docs THEN <<series_id>>
                 ELSE <<>>
       IN call' = [call EXCEPT
                     !.runs = @ + 1, !.force = force, !.qs = qs, !.i = 1,
                     !.successes = 0, !.attempted = <<>>,
                     !.output = IF qs = <<>>
                                THEN <<Line("stderr", 0, "CommandError")>>
                                ELSE <<>>,
                     !.exit = IF qs = <<>> THEN 1 ELSE NoExit,
                     !.pc = IF qs = <<>> THEN "idle" ELSE "loop"]
    /\ UNCHANGED jobVars

\* render_series from its start to the renderer's call (lines 682-925): the
\* source is looked up, inlined and hashed; the call ends here when the
\* document is up to date and goes on to the renderer otherwise.
RenderSeries(hangs) ==
    /\ InCommand
    /\ call.pc = "loop"
    /\ call.i <= Len(call.qs)
    /\ LET d == call.qs[call.i]
           series == call.series[d]
           full_tex == call.source[d]
           checksum == Checksum(call.pipeline, full_tex)
           raw_tex == Prepared(full_tex)
       IN IF full_tex \notin Versions
          THEN /\ ~hangs
               /\ call' = [call EXCEPT !.attempted = Append(@, d),
                                       !.pc = "except"]
          ELSE IF should_skip(call.force, series, checksum)
          THEN /\ ~hangs
               /\ call' = [call EXCEPT
                             !.attempted = Append(@, d),
                             !.output = Append(@, Line("stdout", d, "up-to-date, skipping")),
                             !.prev[d] = call.last[d],
                             !.last[d] = Finished(d, "skipped"),
                             !.i = @ + 1]
          ELSE call' = [call EXCEPT
                          !.attempted = Append(@, d),
                          !.output = IF raw_tex.markers # 0
                                     THEN Append(@, Line("stdout", d, "inserted "))
                                     ELSE @,
                          !.raw_tex = raw_tex,
                          !.hangs = hangs,
                          !.pc = "subprocess"]
    /\ UNCHANGED jobVars

\* The renderer returns (line 281) and render_series stores the result
\* (lines 931-966).
RendererReturn(rc) ==
    /\ InCommand
    /\ call.pc = "subprocess"
    /\ ~call.hangs
    /\ LET d == call.qs[call.i]
           checksum == Checksum(call.pipeline, call.source[d])
           failed == rc # RENDERED_HTML
       IN call' = [call EXCEPT
                     !.series[d] = StoreResult(call.series[d], rc, call.raw_tex,
                                               checksum, call.now + 1),
                     !.now = @ + 1,
                     !.output = Append(@, IF failed
                                          THEN Line("stderr", d, "LaTeXML failed")
                                          ELSE Line("stdout", d, "rendered")),
                     !.successes = @ + 1,
                     !.prev[d] = call.last[d],
                     !.last[d] = Finished(d, IF failed THEN "fallback"
                                             ELSE "rendered"),
                     !.i = @ + 1,
                     !.pc = "loop"]
    /\ UNCHANGED jobVars

\* latexmlc is not installed: subprocess.run raises (line 281).
RendererMissing ==
    /\ InCommand
    /\ call.pc = "subprocess"
    /\ ~call.hangs
    /\ call' = [call EXCEPT !.pc = "except"]
    /\ UNCHANGED jobVars

\* Without a handler the exception ends the command.
HandleExcept_abort ==
    /\ InCommand
    /\ call.pc = "except"
    /\ call' = [call EXCEPT
                  !.output = Append(@, Line("stderr", 0, "CommandError")),
                  !.exit = 1,
                  !.pc = "idle"]
    /\ UNCHANGED jobVars

\* The handler of Command.handle (lines 674-678).
HandleExcept ==
    /\ InCommand
    /\ call.pc = "except"
    /\ LET d == call.qs[call.i]
       IN call' = [call EXCEPT
                     !.series[d].render_status = FAILED,
                     !.series[d].render_log = "exc",
                     !.output = Append(@, Line("stderr", d, "exc")),
                     !.prev[d] = call.last[d],
                     !.last[d] = Finished(d, "raised"),
                     !.i = @ + 1,
                     !.pc = "loop"]
    /\ UNCHANGED jobVars

\* The end of the loop (line 680); the command returns and the process
\* exits with code 0.
HandleReturn ==
    /\ InCommand
    /\ call.pc = "loop"
    /\ call.i > Len(call.qs)
    /\ call' = [call EXCEPT
                  !.output = Append(@, Line("stdout", 0, "Rendered")),
                  !.exit = 0,
                  !.pc = "idle"]
    /\ UNCHANGED jobVars

\* Between two runs the source of a document changes.
EditSource(d, source) ==
    /\ InCommand
    /\ call.pc = "idle"
    /\ call.runs < MaxRuns
    /\ call.source[d] # source
    /\ call' = [call EXCEPT !.source[d] = source]
    /\ UNCHANGED jobVars

\* Between two runs RENDER_PIPELINE_ID is bumped (lines 20-21).
BumpPipeline ==
    /\ InCommand
    /\ call.pc = "idle"
    /\ call.runs < MaxRuns
    /\ call.pipeline < MaxPipelines
    /\ call' = [call EXCEPT !.pipeline = @ + 1]
    /\ UNCHANGED jobVars

RenderNext ==
    \/ \E series_id \in 0..(MaxDocs + 1), force \in BOOLEAN :
          Handle(series_id, force)
    \/ \E hangs \in BOOLEAN : RenderSeries(hangs)
    \/ \E rc \in Returns : RendererReturn(rc)
    \/ RendererMissing
    \/ HandleExcept
    \/ HandleReturn
    \/ \E d \in Docs, source \in Sources : EditSource(d, source)
    \/ BumpPipeline

RenderSpec == RenderInit /\ [][RenderNext]_vars

\* The command's process takes its next step whenever it has one, and a
\* renderer that is not hanging returns.
RenderFairness ==
    /\ WF_vars(\E hangs \in BOOLEAN : RenderSeries(hangs))
    /\ WF_vars((\E rc \in Returns : RendererReturn(rc)) \/ RendererMissing)
    /\ WF_vars(HandleExcept)
    /\ WF_vars(HandleReturn)

\* Runs of the command over all documents, their sources being fixed.
RenderLiveNext ==
    \/ \E force \in BOOLEAN : Handle(0, force)
    \/ \E hangs \in BOOLEAN : RenderSeries(hangs)
    \/ \E rc \in Returns : RendererReturn(rc)
    \/ RendererMissing
    \/ HandleExcept
    \/ HandleReturn

RenderLiveSpec == RenderInit /\ [][RenderLiveNext]_vars /\ RenderFairness

\* ---- _inline_inputs (management/commands/render_series_html.py) ----

\* bounds of the file tree
NumFiles == 3
MaxFileLines == 2

\* The files of the tree, named by their resolved paths.  The last one lies
\* outside the semester root; the root document is file 1.
Files == 1..NumFiles
NoFile == 0
InsideFiles == 1..(NumFiles - 1)
is_relative_to_root(resolved) == resolved \in InsideFiles

\* The reference of an \input or \include line (line 163), as
\* _resolve_include_path sees it: blank after cleaning (115-117), with or
\* without a suffix (122), and the files that base_dir / ref and the same
\* path with suffix .tex resolve to (NoFile: not a file).  A candidate that
\* is never looked at is NoFile.
Refs ==
    {[blank |-> TRUE, suffix |-> FALSE, literal |-> NoFile, tex |-> NoFile]}
    \cup {[blank |-> FALSE, suffix |-> TRUE, literal |-> p, tex |-> NoFile] :
            p \in Files \cup {NoFile}}
    \cup {[blank |-> FALSE, suffix |-> FALSE, literal |-> p, tex |-> q] :
            p \in (Files \cup {NoFile}) \ InsideFiles, q \in Files \cup {NoFile}}

\* The lines of a file: text, \endinput, or an \input / \include line.
TEXTLINE == [kind |-> "text"]
ENDINPUT == [kind |-> "endinput"]
IncludeLine(ref) == [kind |-> "include", ref |-> ref]
FileLines == {TEXTLINE, ENDINPUT} \cup {IncludeLine(ref) : ref \in Refs}
FileTexts == UNION {[1..n -> FileLines] : n \in 0..MaxFileLines}

\* _resolve_include_path (lines 114-144) without the test of the root.
resolve_include_path_anywhere(ref) ==
    LET candidates == IF ref.suffix THEN <<ref.literal>>
                      ELSE <<ref.literal, ref.tex>>
        found == {k \in 1..Len(candidates) : candidates[k] # NoFile}
    IN IF ref.blank \/ found = {} THEN NoFile
       ELSE candidates[CHOOSE k \in found : \A x \in found : k <= x]

\* _resolve_include_path (lines 114-144): the first candidate that is a file
\* under the semester root.
resolve_include_path(ref) ==
    LET candidates == IF ref.suffix THEN <<ref.literal>>
                      ELSE <<ref.literal, ref.tex>>
        found == {k \in 1..Len(candidates) :
                     /\ candidates[k] # NoFile
                     /\ is_relative_to_root(candidates[k])}
    IN IF ref.blank \/ found = {} THEN NoFile
       ELSE candidates[CHOOSE k \in found : \A x \in found : k <= x]

\* The test of lines 153-154.
in_seen_never(resolved, seen) == FALSE

in_seen(resolved, seen) == resolved \in seen

\* The depth of the recursion that the model follows; a tree of NumFiles
\* files needs NumFiles frames.
MaxDepth == NumFiles + 1

\* A line of the inlined text: line k of file p.
SourceLine(p, k) == <<p, k>>

\* A call of _inline_inputs on the root document of some file tree.
InlineInit ==
    /\ JobsInit
    /\ \E files \in [InsideFiles -> FileTexts] :
          call = [fn |-> "_inline_inputs", pc |-> "call",
                  files |-> [p \in Files |->
                               IF p \in InsideFiles THEN files[p]
                               ELSE <<TEXTLINE>>],
                  stack |-> <<>>, seen |-> {},
                  reads |-> [p \in Files |-> 0],
                  revisits |-> 0,
                  result |-> <<>>]

InInline == call.fn = "_inline_inputs"

Frame(p) == [path |-> p, k |-> 1, out |-> <<>>]

\* The top-level call (lines 147-161): the root is added to seen and read.
InlineCall ==
    /\ InInline
    /\ call.pc = "call"
    /\ call' = [call EXCEPT !.stack = <<Frame(1)>>,
                            !.seen = {1},
                            !.reads[1] = @ + 1,
                            !.pc = "lines"]
    /\ UNCHANGED jobVars

\* One turn of the loop of lines 164-173 in the innermost call, with the
\* start of the recursive call (lines 148-161) for a line that resolves.
\* The caller's seen holds the caller's own path, so that "seen or set()"
\* of line 148 is the caller's set in every recursive call.
InlineLine ==
    /\ InInline
    /\ call.pc = "lines"
    /\ LET n == Len(call.stack)
           top == call.stack[n]
           text == call.files[top.path]
       IN /\ top.k <= Len(text)
          /\ LET line == text[top.k]
                 target == IF line.kind = "include"
                           THEN resolve_include_path(line.ref)
                           ELSE NoFile
             IN IF line.kind = "endinput"
                THEN call' = [call EXCEPT !.stack[n].k = @ + 1]
                ELSE IF target = NoFile
                THEN call' = [call EXCEPT
                                !.stack[n].k = @ + 1,
                                !.stack[n].out =
                                    Append(@, SourceLine(top.path, top.k))]
                ELSE IF in_seen(target, call.seen)
                THEN call' = [call EXCEPT !.stack[n].k = @ + 1,
                                          !.revisits = 1]
                ELSE /\ n < MaxDepth
                     /\ call' = [call EXCEPT
                                   !.stack = Append(@, Frame(target)),
                                   !.seen = @ \cup {target},
                                   !.reads[target] = @ + 1]
    /\ UNCHANGED jobVars

\* The innermost call returns its text (line 174) and the caller appends it
\* (line 171).
InlineReturn ==
    /\ InInline
    /\ call.pc = "lines"
    /\ LET n == Len(call.stack)
           top == call.stack[n]
       IN /\ top.k > Len(call.files[top.path])
          /\ IF n = 1
             THEN call' = [call EXCEPT !.result = top.out,
                                       !.stack = <<>>,
                                       !.pc = "done"]
             ELSE call' = [call EXCEPT
                             !.stack = [SubSeq(@, 1, n - 1) EXCEPT
                                          ![n - 1].k = @ + 1,
                                          ![n - 1].out = @ \o top.out]]
    /\ UNCHANGED jobVars

InlineNext == InlineCall \/ InlineLine \/ InlineReturn

\* The call runs on while it has a step to take.
InlineSpec == InlineInit /\ [][InlineNext]_vars /\ WF_vars(InlineNext)

\* ---- handle_line on the lines of one child (render_api.py 152-175) ----

\* The number of lines fed to handle_line.
MaxFeed == 3

\* The text of a line as _append_log receives it.
LineChunk(msg) == IF SERIES_LINE_RE(msg) THEN <<"a">> ELSE <<"b">>

\* The locals of _run_command_for_job before the first line (lines 135-138):
\* no document is completed, and the job's counters are those stored by the
\* children before this one, which rendered `earlier` documents.
LineInit ==
    /\ JobsInit
    /\ \E earlier \in 0..1 :
          LET w == [IdleWorker EXCEPT !.job.processed_count = earlier,
                                      !.job.rendered_count = earlier]
          IN call = [fn |-> "handle_line", n |-> 0, w |-> w, before |-> w,
                     series_id |-> 0, msg |-> NOPREFIX,
                     log |-> <<>>, log_before |-> <<>>]

\* handle_line (lines 152-175) on one more line of the child's output.
HandleLine(series_id, msg) ==
    /\ call.fn = "handle_line"
    /\ call.n < MaxFeed
    /\ call' = [call EXCEPT
                  !.n = @ + 1,
                  !.before = call.w,
                  !.w = handle_line(call.w, series_id, msg),
                  !.series_id = series_id,
                  !.msg = msg,
                  !.log_before = call.log,
                  !.log = append_log(call.log, LineChunk(msg))]
    /\ UNCHANGED jobVars

LineNext == \E series_id \in SeriesTable, msg \in AllMsgs : HandleLine(series_id, msg)

LineSpec == LineInit /\ [][LineNext]_vars

TypeOK ==
    /\ Len(db) <= MaxJobs
    /\ \A j \in DOMAIN db : db[j].status \in Status

\* ---- properties ----

\* C1: at most one job is queued or running at any moment.
C1_AtMostOneActive == Cardinality(ActiveJobs) <= 1

\* C2: once a job's stored status is cancelled, no later write replaces it,
\* even in runs where no exception reaches the runner's handler.
C2_CancelledStays ==
    [][\A j \in DOMAIN db :
          (db[j].status = CANCELLED /\ ~db'[j].error_message)
          => db'[j].status = CANCELLED]_vars

\* C3: in every stored row processed = rendered + skipped + failed and
\* processed <= total.
C3_CountersConsistent ==
    \A j \in DOMAIN db :
        /\ db[j].processed_count =
              db[j].rendered_count + db[j].skipped_count + db[j].failed_count
        /\ db[j].processed_count <= db[j].total_count

C3_Witness ==
    \E j \in DOMAIN db :
        /\ db[j].processed_count = 2
        /\ db[j].rendered_count = 1
        /\ db[j].failed_count = 1

Counters(job) ==
    <<job.processed_count, job.rendered_count, job.skipped_count, job.failed_count>>

\* C4: a line for a document id whose outcome has already been counted for
\* the job changes none of the four counters.
C4_CountedOnce ==
    [][\A j \in JobIds :
          (/\ wk'[j].nread = wk[j].nread + 1
           /\ wk'[j].job.current_series_id \in hist[j].counted)
          => Counters(wk'[j].job) = Counters(wk[j].job)]_vars

C4_Witness ==
    \E j \in DOMAIN db :
        /\ hist[j].dup
        /\ wk[j].job.processed_count = 1
        /\ wk[j].job.rendered_count = 1
        /\ db[j].processed_count = 1

\* C5: a job for the documents 1, 2, 3 that is cancelled after the child of
\* document 1 has ended with its outcome counted and before the child of
\* document 2 is started ends cancelled with processed_count 1 and without
\* a child for document 3.
C5_CancelBetweenDocuments ==
    \A j \in DOMAIN db :
        (/\ db[j].scope = SERIES
         /\ db[j].series_ids = {1, 2, 3}
         /\ hist[j].cancelAt = "between"
         /\ 1 \in hist[j].counted
         /\ ~db[j].error_message
         /\ wk[j].pc = "done")
        => /\ db[j].status = CANCELLED
           /\ db[j].processed_count = 1
           /\ child[j].gen < 3

\* C6: a job that was never cancelled and has ended without an exception is
\* failed if a child exited non-zero or an outcome was counted failed, and
\* succeeded otherwise.
C6_TerminalStatus ==
    \A j \in DOMAIN db :
        (/\ wk[j].pc = "done"
         /\ hist[j].cancelAt = "none"
         /\ ~db[j].error_message)
        => db[j].status = IF hist[j].shouldFail THEN FAILED ELSE SUCCEEDED

\* C7: once a cancel has been stored for a scope=series job, no further child
\* is spawned for it.
C7_NoSpawnAfterCancel ==
    [][\A j \in DOMAIN db :
          (db[j].scope = SERIES /\ hist[j].cancelAt # "none")
          => child'[j].gen = child[j].gen]_vars

\* C8: when a cancel was stored while a child was alive, the request has been
\* answered and the runner has since read a line of that child, terminate()
\* has been called on the child.
C8_ChildSignalled ==
    \A j \in DOMAIN db :
        (hist[j].poll = "polled" /\ canc.job # j) => child[j].sig

\* C9: every created job eventually has a terminal status for good.
C9_EventuallyTerminal ==
    \A j \in JobIds : Exists(j) ~> [](Exists(j) /\ db[j].status \in Terminal)

C9_Witness ==
    \E j \in DOMAIN db :
        /\ wk[j].pc = "done"
        /\ db[j].error_message
        /\ db[j].status = FAILED

Rank(status) ==
    IF status = QUEUED THEN 0 ELSE IF status = RUNNING THEN 1 ELSE 2

\* C10: a stored status only moves forward along
\* queued -> running -> {succeeded, failed, cancelled}, even in runs where
\* no exception reaches the runner's handler.
C10_StatusForward ==
    [][\A j \in DOMAIN db :
          (db'[j].status # db[j].status /\ ~db'[j].error_message)
          => Rank(db'[j].status) > Rank(db[j].status)]_vars

\* C11: an exception raised in the runner thread of a job is caught by the
\* thread's handler: in the step that ends the thread the stored status
\* becomes failed with error_message and finished_at set, and at every moment
\* a thread that has ended after an exception has left error_message and
\* finished_at stored.
C11_ExceptionCaught ==
    [][\A j \in JobIds :
          /\ (hist'[j].raised /\ wk[j].pc # "done" /\ wk'[j].pc = "done")
             => (/\ wk[j].pc = "except"
                 /\ db'[j].status = FAILED
                 /\ db'[j].error_message
                 /\ db'[j].finished_at)
          /\ (hist[j].raised /\ wk[j].pc = "done")
             => (db[j].error_message /\ db[j].finished_at)]_vars

C11_Witness ==
    \E j \in DOMAIN db :
        /\ hist[j].raised
        /\ wk[j].pc = "done"
        /\ child[j].st = "alive"
        /\ db[j].status = FAILED
        /\ db[j].processed_count = 1

\* C12: when the runner of a job that was never cancelled has ended without
\* an exception, the stored processed_count is the number of documents an
\* outcome was observed for, also when the last flush was suppressed by the
\* rate limit.
C12_TerminalCounters ==
    \A j \in DOMAIN db :
        (/\ wk[j].pc = "done"
         /\ ~hist[j].raised
         /\ hist[j].cancelAt = "none")
        => db[j].processed_count = Cardinality(hist[j].counted)

\* C13: the registry holds no handle of a job whose runner is between two
\* children or has ended, on whatever path the child ended, and terminate()
\* is never called through a handle of the registry on a child the runner
\* has already waited for.
C13_RegistryClean ==
    [][/\ \A j \in JobIds :
             wk'[j].pc \in {"loop_check", "final_read", "final_write", "done"}
             => j \notin RUNNING_PROCS'
       /\ (canc.pc = "terminate" /\ canc'.pc = "idle")
          => ~Reaped(canc.job, canc.gen)]_vars

\* The second half of C13 alone: terminate() is never called through a handle
\* of the registry on a child the runner has already waited for.
C13_NoStaleSignal ==
    [][(canc.pc = "terminate" /\ canc'.pc = "idle")
       => ~Reaped(canc.job, canc.gen)]_vars

\* The jobs whose runner thread has started and not yet ended.
ActiveWorkers == {j \in JobIds : wk[j].pc \notin {"idle", "done"}}

\* C14: at most one runner thread is active at any moment, also after a
\* running job has been cancelled and a new job created.
C14_OneWorker == Cardinality(ActiveWorkers) <= 1

\* C15: a create request with a valid scope that is checked while some job is
\* queued or running is answered with the conflict (409) and goes no further;
\* answering a request checked at such a moment creates no row, starts no
\* runner and changes no stored row.
C15_ConflictRejected ==
    [][\A c \in Clients :
          (/\ client[c] # "checked"
           /\ ActiveJobs # {}
           /\ client'[c] # client[c])
          => (/\ client'[c] # "checked"
              /\ client[c] = "idle" => client'[c] = "conflict"
              /\ UNCHANGED <<db, wk, child, RUNNING_PROCS>>)]_vars

C15_Witness ==
    \E c \in Clients :
        /\ client[c] = "conflict"
        /\ Len(db) = 1
        /\ db[1].status = RUNNING
        /\ db[1].processed_count = 1

\* text is the last characters of all, as many as the limit allows.
IsTailOf(text, all) ==
    /\ Len(text) = IF Len(all) <= LOG_LIMIT_CHARS THEN Len(all) ELSE LOG_LIMIT_CHARS
    /\ \A i \in 1..Len(text) : text[i] = all[Len(all) - Len(text) + i]

\* C16: after any sequence of lines the log in memory is at most
\* LOG_LIMIT_CHARS characters long and is the tail of the initial log followed
\* by all lines received, and the stored output_log is that of the moment it
\* was written.
C16_LogIsTail ==
    call.fn = "_append_log" =>
        /\ Len(call.log) <= LOG_LIMIT_CHARS
        /\ IsTailOf(call.log, call.received)
        /\ Len(call.output_log) <= LOG_LIMIT_CHARS
        /\ IsTailOf(call.output_log, SubSeq(call.received, 1, call.flushed))

C16_Witness ==
    /\ call.fn = "_append_log"
    /\ call.pc = "done"
    /\ Len(call.received) = MaxStream
    /\ call.received[1] # call.received[MaxStream]
    /\ Len(call.output_log) = LOG_LIMIT_CHARS

\* C17: for every expected count N >= 0 and every HTML the extractor returns
\* exactly N strings, none for N = 0.
C17_ExactlyN ==
    (call.fn = "extract_exercise_search_texts" /\ call.pc = "done")
    => Len(call.result) = call.expected_count

\* The words of a text, without the blanks.
WordsOf(text) == SelectSeq(text, LAMBDA x : x # SPACE)

\* The words of the chunks from place n on, in order.
RECURSIVE WordsFrom(_, _)
WordsFrom(chunks, n) ==
    IF n > Len(chunks) THEN <<>>
    ELSE WordsOf(chunks[n]) \o WordsFrom(chunks, n + 1)

\* C18: for N > 0 and a non-empty list of candidates, the first candidate of
\* length N is returned as it is; without one, the candidate closest to N in
\* length, the earliest among equals, is fitted: of more than N blocks the
\* first N-1 are kept and the N-th result holds the blocks N to the last in
\* order; fewer than N blocks are kept in order and followed by empty strings
\* up to N.
C18_Reconciliation ==
    (/\ call.fn = "extract_exercise_search_texts"
     /\ call.pc = "done"
     /\ call.expected_count > 0
     /\ Candidates(call.html) # <<>>)
    => LET c == Candidates(call.html)
           n == call.expected_count
           r == call.result
           exact == {k \in 1..Len(c) : Len(c[k]) = n}
           least == CHOOSE d \in 0..(MaxHtml + MaxCount) :
                       /\ \E k \in 1..Len(c) : Distance(c[k], n) = d
                       /\ \A k \in 1..Len(c) : Distance(c[k], n) >= d
           near == {k \in 1..Len(c) : Distance(c[k], n) = least}
           best == c[CHOOSE k \in near : \A x \in near : k <= x]
       IN IF exact # {}
          THEN r = c[CHOOSE k \in exact : \A x \in exact : k <= x]
          ELSE /\ Len(r) = n
               /\ \A i \in 1..n :
                     IF i < n /\ i <= Len(best) THEN r[i] = best[i]
                     ELSE IF i = n /\ i <= Len(best)
                          THEN /\ WordsOf(r[i]) = WordsFrom(best, n)
                               /\ Len(best) = n + 1 =>
                                     r[i] = best[n] \o <<SPACE>> \o best[n + 1]
                     ELSE r[i] = <<>>

\* Two candidates are equally close to N = 2: one marker block and three
\* heading blocks; the marker block is kept and followed by an empty string.
C18_Witness ==
    /\ call.fn = "extract_exercise_search_texts"
    /\ call.pc = "done"
    /\ call.expected_count = 2
    /\ Len(marker_texts(call.html)) = 1
    /\ Len(heading_texts(call.html, H2)) = 3
    /\ call.result = <<marker_texts(call.html)[1], <<>>>>

\* Three heading blocks are fitted to N = 2: the second result holds the
\* second and the third block.
C18_WitnessMerge ==
    /\ call.fn = "extract_exercise_search_texts"
    /\ call.pc = "done"
    /\ call.expected_count = 2
    /\ call.html = <<H2, WORD, H2, H2>>
    /\ call.result = <<<<2>>, <<SPACE>>>>

\* The marker tokens of a text, in order.
MarkersOf(text) == SelectSeq(text, LAMBDA x : x <= MARKER_TOKEN(1))

\* The number of lines of the body of raw_tex that have a match of pattern k.
BodyLines(raw_tex, k) ==
    LET lines == SplitLines(SplitDocument(raw_tex).body)
    IN Cardinality({i \in 1..Len(lines) : line_has_uncommented_match(lines[i], k)})

\* C19: when no pattern matches exactly N lines of the body, N <= 0
\* included, the text is returned as it is with count 0; and whenever markers
\* are injected their number is N and the count returned is N.
C19_InjectOnlyOnExact ==
    (call.fn = "_inject_exercise_markers" /\ call.pc = "done")
    => LET n == call.exercise_count
           r == call.result
       IN /\ (n <= 0 \/ \A k \in Patterns : BodyLines(call.raw_tex, k) # n)
             => (r.text = call.raw_tex /\ r.idx = 0)
          /\ (r.text # call.raw_tex \/ r.idx # 0)
             => (r.idx = n /\ Len(MarkersOf(r.text)) = n)

\* The first pattern matches one line and the second two: for N = 2 two
\* markers are injected.
C19_Witness ==
    /\ call.fn = "_inject_exercise_markers"
    /\ call.pc = "done"
    /\ call.raw_tex = <<1, NEWLINE, 2, NEWLINE, 2>>
    /\ call.exercise_count = 2
    /\ call.result.idx = 2

\* The text without its markers and the NEWLINE after each.
RECURSIVE WithoutMarkers(_)
WithoutMarkers(text) ==
    IF text = <<>> THEN <<>>
    ELSE IF text[1] <= MARKER_TOKEN(1)
    THEN WithoutMarkers(SubSeq(text, 3, Len(text)))
    ELSE <<text[1]>> \o WithoutMarkers(Tail(text))

\* The line of a text that starts at place p, up to its NEWLINE.
LineAt(text, p) ==
    LET ends == {i \in p..Len(text) : text[i] = NEWLINE}
    IN SubSeq(text, p, IF ends = {} THEN Len(text) ELSE Least(ends))

C21_SecondCallSkipped ==
    InCommand =>
      \A d \in Docs :
        LET last == call.last[d]
            prev == call.prev[d]
        IN /\ (/\ last.outcome # "none" /\ prev.outcome # "none"
               /\ ~last.force
               /\ last.source \in Versions
               /\ last.source = prev.source
               /\ last.pipeline = prev.pipeline)
              => last.outcome = "skipped"
           /\ (last.outcome # "none" /\ ~last.force /\ last.source \in Versions)
              => (last.outcome = "skipped" <=> last.equal)

\* C21: a call of render_series without force that follows a call on the
\* same document that ended with render_status ok (rendered or skipped),
\* with the same inlined TeX and the same pipeline id, is skipped; and a call
\* is skipped exactly when it is without force, the stored checksum equals
\* the computed one and the stored render_status is ok.
C21_SkippedAfterOk ==
    InCommand =>
      \A d \in Docs :
        LET last == call.last[d]
            prev == call.prev[d]
        IN /\ (/\ last.outcome # "none"
               /\ prev.outcome \in {"rendered", "skipped"}
               /\ ~last.force
               /\ last.source \in Versions
               /\ last.source = prev.source
               /\ last.pipeline = prev.pipeline)
              => last.outcome = "skipped"
           /\ (last.outcome # "none" /\ last.source \in Versions)
              => (last.outcome = "skipped"
                    <=> (~last.force /\ last.equal /\ last.ok))

\* A second run has skipped a document that the first run rendered.
C21_Witness ==
    /\ InCommand
    /\ \E d \in Docs :
          /\ call.prev[d].outcome = "rendered"
          /\ call.last[d].outcome = "skipped"
          /\ call.last[d].source = call.prev[d].source
          /\ call.last[d].pipeline = call.prev[d].pipeline
\* The document needs a render: force is set, or the stored checksum is not
\* that of the pipeline id and the inlined TeX, or the stored status is not
\* ok.
MustRender(d) ==
    \/ call.force
    \/ call.series[d].tex_checksum # Checksum(call.pipeline, call.source[d])
    \/ call.series[d].render_status # OK

\* C22: a step of render_series calls the renderer, or changes one of the
\* document's html_content, render_status, render_log, tex_checksum and
\* html_rendered_at, only if force is set, or the stored checksum differs
\* from the one computed from the pipeline id and the inlined TeX, or the
\* stored render_status is not ok.
C22_RenderOnlyIfNeeded ==
    [][(InCommand /\ call.pc \in {"loop", "subprocess"}
        /\ call.i <= Len(call.qs))
       => LET d == call.qs[call.i]
          IN /\ (call'.pc = "subprocess" \/ call'.series[d] # call.series[d])
                => (call.source[d] \in Versions /\ MustRender(d))
             /\ \A e \in Docs \ {d} : call'.series[e] = call.series[e]]_vars

\* A document whose stored status was ok has been rendered again without
\* force, its stored checksum being another one than the computed one.
C22_Witness ==
    /\ InCommand
    /\ \E d \in Docs :
          /\ call.last[d].outcome = "rendered"
          /\ ~call.last[d].force
          /\ call.last[d].ok
          /\ ~call.last[d].equal
          /\ call.prev[d].outcome = "rendered"
\* C23: a document whose render has failed (the renderer's exit code was not
\* 0, its HTML was empty, or the call raised) has render_status failed and
\* an html_content that is not empty; after a renderer failure the content
\* is the escaped normalized TeX in one pre block without any marker.
C23_FailedHasContent ==
    InCommand =>
      \A d \in Docs :
        call.last[d].outcome \in {"fallback", "raised"}
        => /\ call.series[d].render_status = FAILED
           /\ call.series[d].html_content.kind # "empty"
           /\ call.last[d].outcome = "fallback"
              => call.series[d].html_content
                    = [kind |-> "pre", tex |-> call.last[d].source,
                       markers |-> 0]
\* The lines of the output that report a failure of document d.
FailureLines(d) ==
    SelectSeq(call.output,
              LAMBDA l : l.series = d /\ l.msg \in {"LaTeXML failed", "exc"})

\* The documents whose render failed in the last run.
FailedDocs ==
    {d \in Docs : \E k \in 1..Len(call.qs) :
        call.qs[k] = d /\ call.last[d].outcome \in {"fallback", "raised"}}

\* C24: when a run of the command over some documents ends, every one of
\* them has been attempted exactly once, in order, every document whose
\* render failed has render_status failed and one line "Series <id>: ..." of
\* its own in the output, and the exit code is 0.
C24_BatchContinues ==
    (InCommand /\ call.pc = "idle" /\ call.qs # <<>>)
    => /\ call.attempted = call.qs
       /\ \A d \in FailedDocs :
             /\ call.series[d].render_status = FAILED
             /\ Len(FailureLines(d)) = 1
       /\ call.exit = 0

\* A run over two documents has ended after the first one failed and the
\* second one was rendered.
C24_Witness ==
    /\ InCommand
    /\ call.pc = "idle"
    /\ call.exit = 0
    /\ call.qs = <<1, 2>>
    /\ call.last[1].outcome \in {"fallback", "raised"}
    /\ call.last[2].outcome = "rendered"
    /\ call.series[2].render_status = OK
\* C25: when the renderer called for a document never exits, the call is
\* given up and the document gets a failure outcome.
C25_HungRendererFails ==
    \A d \in Docs :
        (InCommand /\ call.pc = "subprocess" /\ call.hangs
         /\ call.qs[call.i] = d)
        ~> (call.pc # "subprocess" /\ call.series[d].render_status = FAILED)
\* The places of the inlined text where line k of file p stands.
Places(text, p, k) == {x \in 1..Len(text) : text[x] = SourceLine(p, k)}

\* C26: _inline_inputs returns for every file tree, cycles included; no
\* path is read more than once in a call, the recursion is never deeper
\* than the number of files, and no line of a file stands twice in the
\* returned text.
C26_InlineTerminates ==
    /\ [](InInline =>
            /\ \A p \in Files : call.reads[p] <= 1
            /\ Len(call.stack) <= NumFiles
            /\ \A p \in Files, k \in 1..MaxFileLines :
                  Cardinality(Places(call.result, p, k)) <= 1)
    /\ <>(InInline /\ call.pc = "done")

\* The call has returned for two files that include each other: the second
\* reference to the root gave no text.
C26_Witness ==
    /\ InInline
    /\ call.pc = "done"
    /\ call.revisits = 1
    /\ call.reads[2] = 1
    /\ \E k \in 1..Len(call.files[2]) :
          /\ call.files[2][k].kind = "include"
          /\ resolve_include_path(call.files[2][k].ref) = 1
    /\ call.result # <<>>

\* C27: no file outside the semester root is read, and no line of such a
\* file stands in the text that a call has collected or returned.
C27_InsideRoot ==
    InInline =>
      \A p \in Files \ InsideFiles :
        /\ call.reads[p] = 0
        /\ \A k \in 1..MaxFileLines :
              /\ Places(call.result, p, k) = {}
              /\ \A n \in 1..Len(call.stack) :
                    Places(call.stack[n].out, p, k) = {}

\* The call has returned for a root whose first line refers to the file
\* outside the semester root: the line is kept as it is.
C27_Witness ==
    /\ InInline
    /\ call.pc = "done"
    /\ Len(call.files[1]) >= 1
    /\ call.files[1][1].kind = "include"
    /\ call.files[1][1].ref.literal = NumFiles
    /\ resolve_include_path(call.files[1][1].ref) = NoFile
    /\ call.result[1] = SourceLine(1, 1)
\* The counters of the runner's copy of the job.
CountersOf(job) ==
    <<job.processed_count, job.rendered_count, job.skipped_count,
      job.failed_count>>

\* What a line of the given message adds to the counters when it is counted.
Added(msg) ==
    IF msg = RENDERED THEN <<1, 1, 0, 0>>
    ELSE IF msg \in {SKIPPING, OTHER_SKIPPING} THEN <<1, 0, 1, 0>>
    ELSE <<1, 0, 0, 1>>

\* C28: every line is added to the log and falls in exactly one case.  A
\* line not of the form "Series <id>: <msg>" changes nothing else.  A
\* structured line sets current_series_id; when its message starts with
\* 'inserted ' it changes nothing else; otherwise it is an outcome line:
\* 'rendered' is rendered, another message with the skip phrase is skipped,
\* any other message is failed.  An outcome line of a document that no
\* earlier line of this child has counted raises processed and the counter
\* of its outcome by 1 and no other counter; a further outcome line of the
\* same document raises none.
C28_LineClassified ==
    (call.fn = "handle_line" /\ call.n > 0)
    => LET b == call.before
           a == call.w
           msg == call.msg
           info == msg \in {INSERTED, INSERTED_SKIPPING}
           counted == msg # NOPREFIX /\ ~info /\ call.series_id \notin b.completed
       IN /\ call.log = append_log(call.log_before, LineChunk(msg))
          /\ a.job.current_series_id
                = IF msg = NOPREFIX THEN b.job.current_series_id
                  ELSE call.series_id
          /\ a.completed = IF counted THEN b.completed \cup {call.series_id}
                           ELSE b.completed
          /\ \A x \in 1..4 :
                CountersOf(a.job)[x]
                    = CountersOf(b.job)[x] + IF counted THEN Added(msg)[x] ELSE 0
          /\ a = [b EXCEPT !.job = a.job, !.completed = a.completed]

\* A failure line that holds the skip phrase has been counted as skipped
\* after a rendered line of another document.
C28_Witness ==
    /\ call.fn = "handle_line"
    /\ call.n = 2
    /\ call.msg = OTHER_SKIPPING
    /\ call.before.job.rendered_count = 1
    /\ call.before.completed # {}
    /\ call.w.job.skipped_count = 1
    /\ call.w.job.processed_count = 2
\* C29: a job whose stored status is cancelled while no child has been
\* spawned for it spawns no child and keeps the status cancelled.
C29_CancelledQueuedNeverRuns ==
    [][\A j \in DOMAIN db :
          (db[j].status = CANCELLED /\ child[j].gen = 0)
          => (child'[j].gen = 0 /\ db'[j].status = CANCELLED)]_vars
\* C30: when the runner of a scope=series job that was never cancelled has
\* ended without an exception, an outcome having been counted once for each
\* requested document, the stored processed_count equals total_count, also
\* when a flush was suppressed by the rate limit.
C30_SeriesCountersComplete ==
    \A j \in DOMAIN db :
        (/\ db[j].scope = SERIES
         /\ wk[j].pc = "done"
         /\ ~hist[j].raised
         /\ hist[j].cancelAt = "none"
         /\ ~hist[j].dup
         /\ hist[j].counted = db[j].series_ids)
        => db[j].processed_count = db[j].total_count
====
